---------------------------- MODULE Spec2Model ----------------------------
(***************************************************************************)
(* Model of c2go's function handling:                                      *)
(*   program/function_definition.go  the prototype registry and the lazy   *)
(*                                   load of the built-in table            *)
(*   transpiler/functions.go         transpileCallExpr,                    *)
(*                                   transpileFunctionDecl,                *)
(*                                   transpileReturnStmt                   *)
(*                                                                         *)
(* Go strings are modelled as sequences of one-character strings, so that  *)
(* strings.Split, strings.Join, strings.TrimLeft, strings.TrimSpace,       *)
(* strings.HasPrefix and the regular expression of the loader are computed *)
(* character by character, as the code computes them.                      *)
(***************************************************************************)
EXTENDS Integers, Sequences, FiniteSets, TLC

(***************************************************************************)
(* Bounds of the model.                                                    *)
(***************************************************************************)
\* The longest argument list of a call expression that is translated.
MaxArgs == 3
\* The number of function declarations of the translated file.
MaxFileDecls == 2

(***************************************************************************)
(* String literals of the code and of the inputs.                          *)
(***************************************************************************)
s_main == <<"m","a","i","n">>
s_foo == <<"f","o","o">>
s_bar == <<"b","a","r">>
s_printf == <<"p","r","i","n","t","f">>
s_fabs == <<"_","_","b","u","i","l","t","i","n","_","f","a","b","s">>
s_pow == <<"p","o","w">>
s_wcwidth == <<"_","_","w","c","w","i","d","t","h">>
s_istype == <<"_","_","i","s","t","y","p","e">>
s_isctype == <<"_","_","i","s","c","t","y","p","e">>
s_sputc == <<"_","_","s","p","u","t","c">>
s_signbitf == <<"_","_","i","n","l","i","n","e","_","s","i","g","n","b","i","t","f">>
s_signbitd == <<"_","_","i","n","l","i","n","e","_","s","i","g","n","b","i","t","d">>
s_signbitl == <<"_","_","i","n","l","i","n","e","_","s","i","g","n","b","i","t","l">>
s_int == <<"i","n","t">>
s_double == <<"d","o","u","b","l","e">>
s_void == <<"v","o","i","d">>
s_charp == <<"c","h","a","r"," ","*">>
s_int_fn == <<"i","n","t"," ","(",")">>
s_noret_fn == <<"(","i","n","t",")">>
s_int_int_fn == <<"i","n","t"," ","(","i","n","t",")">>
s_double_int_fn == <<"d","o","u","b","l","e"," ","(","i","n","t",")">>
s_double_double_fn == <<"d","o","u","b","l","e"," ","(","d","o","u","b","l","e",")">>
s_fmt == <<"f","m","t">>
s_os == <<"o","s">>
s_os_Exit == <<"o","s",".","E","x","i","t">>
s_fmt_Printf == <<"f","m","t",".","P","r","i","n","t","f">>
s_math_Pow == <<"m","a","t","h",".","P","o","w">>
s_math == <<"m","a","t","h">>
s_root == <<"g","i","t","h","u","b",".","c","o","m","/","e","l","l","i","o","t","c","h","a","n","c","e","/","c","2","g","o","/">>
s_darwin_dot == <<"d","a","r","w","i","n",".">>
s_linux_dot == <<"l","i","n","u","x",".">>
s_noarch_dot == <<"n","o","a","r","c","h",".">>
s_darwin_ns == <<"g","i","t","h","u","b",".","c","o","m","/","e","l","l","i","o","t","c","h","a","n","c","e","/","c","2","g","o","/","d","a","r","w","i","n">>
s_darwin_Fabs == <<"d","a","r","w","i","n",".","F","a","b","s">>
s_arrow == <<" ","-",">"," ">>
s_trim_arrow == <<" ","-",">">>
s_unknown_function == <<"u","n","k","n","o","w","n"," ","f","u","n","c","t","i","o","n",":"," ">>
s_unknown2 == <<"u","n","k","n","o","w","n","2">>
s_unable == <<"u","n","a","b","l","e"," ","t","o"," ","e","x","t","r","a","c","t"," ","t","h","e"," ","r","e","t","u","r","n"," ","t","y","p","e"," ","f","r","o","m",":"," ">>
s_0 == <<"0">>
s_1 == <<"1">>
s_x == <<"x">>
s_y == <<"y">>
s_empty == << >>

(***************************************************************************)
(* package strings, on sequences of characters.                            *)
(***************************************************************************)
\* unicode.IsSpace on the characters a string of TLA+ can hold (Latin-1):
\* tab, line feed, vertical tab, form feed, carriage return, space, U+0085
\* (next line) and U+00A0 (no-break space).  The white space beyond Latin-1
\* (U+1680, U+2000 to U+200A, U+2028, U+2029, U+202F, U+205F, U+3000) cannot
\* be written in a string here and is no character of the model.
WhiteSpace == {"\t", "\n", "", "\f", "\r", " ", "", " "}

HasPrefix(s, prefix) ==
  /\ Len(prefix) <= Len(s)
  /\ SubSeq(s, 1, Len(prefix)) = prefix

\* strings.Split(s, sep) for a separator of one character: the pieces between
\* the separators; a string without separator is its own single piece.
RECURSIVE Split(_, _)
Split(s, sep) ==
  IF \E i \in 1..Len(s) : s[i] = sep
  THEN LET i == CHOOSE k \in 1..Len(s) :
                  /\ s[k] = sep
                  /\ \A j \in 1..(k - 1) : s[j] # sep
       IN  <<SubSeq(s, 1, i - 1)>> \o Split(SubSeq(s, i + 1, Len(s)), sep)
  ELSE <<s>>

\* strings.Join(parts, sep) for a separator of one character.
RECURSIVE Join(_, _)
Join(parts, sep) ==
  IF Len(parts) = 0 THEN << >>
  ELSE IF Len(parts) = 1 THEN parts[1]
  ELSE parts[1] \o <<sep>> \o Join(Tail(parts), sep)

\* strings.TrimLeft(s, cutset): drops the leading characters that are in cutset.
RECURSIVE TrimLeft(_, _)
TrimLeft(s, cutset) ==
  IF Len(s) > 0 /\ s[1] \in cutset THEN TrimLeft(Tail(s), cutset) ELSE s

RECURSIVE TrimRight(_, _)
TrimRight(s, cutset) ==
  IF Len(s) > 0 /\ s[Len(s)] \in cutset
  THEN TrimRight(SubSeq(s, 1, Len(s) - 1), cutset)
  ELSE s

TrimSpace(s) == TrimRight(TrimLeft(s, WhiteSpace), WhiteSpace)

\* The set of the characters of a string (a cutset).
CharsOf(s) == {s[i] : i \in 1..Len(s)}

(***************************************************************************)
(* program/function_definition.go                                          *)
(***************************************************************************)
\* type FunctionDefinition struct
FunctionDefinition(name, returnType, argumentTypes, substitution) ==
  [Name |-> name, ReturnType |-> returnType,
   ArgumentTypes |-> argumentTypes, Substitution |-> substitution]

\* The nil *FunctionDefinition.
Nil == [nil |-> TRUE]

\* var builtInFunctionDefinitions = []string{...}
builtInFunctionDefinitions ==
  <<
    \* function_definition.go:44  __builtin_expect
    <<"i","n","t"," ","_","_","b","u","i","l","t","i","n","_","e","x","p","e","c","t","(","i","n","t",
      ","," ","i","n","t",")"," ","-",">"," ","d","a","r","w","i","n",".","B","u","i","l","t","i","n",
      "E","x","p","e","c","t">>,
    \* function_definition.go:45  __assert_rtn
    <<"b","o","o","l"," ","_","_","a","s","s","e","r","t","_","r","t","n","(","c","o","n","s","t"," ",
      "c","h","a","r","*",","," ","c","o","n","s","t"," ","c","h","a","r","*",","," ","i","n","t",",",
      " ","c","o","n","s","t"," ","c","h","a","r","*",")"," ","-",">"," ","d","a","r","w","i","n",".",
      "A","s","s","e","r","t","R","t","n">>,
    \* function_definition.go:48  __istype
    <<"u","i","n","t","3","2"," ","_","_","i","s","t","y","p","e","(","_","_","d","a","r","w","i","n",
      "_","c","t","_","r","u","n","e","_","t",","," ","u","i","n","t","3","2",")"," ","-",">"," ","d",
      "a","r","w","i","n",".","I","s","T","y","p","e">>,
    \* function_definition.go:49  __isctype
    <<"_","_","d","a","r","w","i","n","_","c","t","_","r","u","n","e","_","t"," ","_","_","i","s","c",
      "t","y","p","e","(","_","_","d","a","r","w","i","n","_","c","t","_","r","u","n","e","_","t",",",
      " ","u","i","n","t","3","2",")"," ","-",">"," ","d","a","r","w","i","n",".","I","s","C","T","y",
      "p","e">>,
    \* function_definition.go:50  __tolower
    <<"_","_","d","a","r","w","i","n","_","c","t","_","r","u","n","e","_","t"," ","_","_","t","o","l",
      "o","w","e","r","(","_","_","d","a","r","w","i","n","_","c","t","_","r","u","n","e","_","t",")",
      " ","-",">"," ","d","a","r","w","i","n",".","T","o","L","o","w","e","r">>,
    \* function_definition.go:51  __toupper
    <<"_","_","d","a","r","w","i","n","_","c","t","_","r","u","n","e","_","t"," ","_","_","t","o","u",
      "p","p","e","r","(","_","_","d","a","r","w","i","n","_","c","t","_","r","u","n","e","_","t",")",
      " ","-",">"," ","d","a","r","w","i","n",".","T","o","U","p","p","e","r">>,
    \* function_definition.go:52  __maskrune
    <<"u","i","n","t","3","2"," ","_","_","m","a","s","k","r","u","n","e","(","_","_","d","a","r","w",
      "i","n","_","c","t","_","r","u","n","e","_","t",","," ","u","i","n","t","3","2",")"," ","-",">",
      " ","d","a","r","w","i","n",".","M","a","s","k","R","u","n","e">>,
    \* function_definition.go:55  __ctype_b_loc
    <<"c","o","n","s","t"," ","u","n","s","i","g","n","e","d"," ","s","h","o","r","t"," ","i","n","t",
      "*","*"," ","_","_","c","t","y","p","e","_","b","_","l","o","c","(",")"," ","-",">"," ","l","i",
      "n","u","x",".","C","t","y","p","e","L","o","c">>,
    \* function_definition.go:56  tolower
    <<"i","n","t"," ","t","o","l","o","w","e","r","(","i","n","t",")"," ","-",">"," ","l","i","n","u",
      "x",".","T","o","L","o","w","e","r">>,
    \* function_definition.go:57  toupper
    <<"i","n","t"," ","t","o","u","p","p","e","r","(","i","n","t",")"," ","-",">"," ","l","i","n","u",
      "x",".","T","o","U","p","p","e","r">>,
    \* function_definition.go:60  __builtin_fabs
    <<"d","o","u","b","l","e"," ","_","_","b","u","i","l","t","i","n","_","f","a","b","s","(","d","o",
      "u","b","l","e",")"," ","-",">"," ","d","a","r","w","i","n",".","F","a","b","s">>,
    \* function_definition.go:61  __builtin_fabsf
    <<"f","l","o","a","t"," ","_","_","b","u","i","l","t","i","n","_","f","a","b","s","f","(","f","l",
      "o","a","t",")"," ","-",">"," ","d","a","r","w","i","n",".","F","a","b","s","f">>,
    \* function_definition.go:62  __builtin_fabsl
    <<"d","o","u","b","l","e"," ","_","_","b","u","i","l","t","i","n","_","f","a","b","s","l","(","d",
      "o","u","b","l","e",")"," ","-",">"," ","d","a","r","w","i","n",".","F","a","b","s","l">>,
    \* function_definition.go:63  __builtin_inf
    <<"d","o","u","b","l","e"," ","_","_","b","u","i","l","t","i","n","_","i","n","f","(",")"," ","-",
      ">"," ","d","a","r","w","i","n",".","I","n","f">>,
    \* function_definition.go:64  __builtin_inff
    <<"f","l","o","a","t"," ","_","_","b","u","i","l","t","i","n","_","i","n","f","f","(",")"," ","-",
      ">"," ","d","a","r","w","i","n",".","I","n","f","f">>,
    \* function_definition.go:65  __builtin_infl
    <<"d","o","u","b","l","e"," ","_","_","b","u","i","l","t","i","n","_","i","n","f","l","(",")"," ",
      "-",">"," ","d","a","r","w","i","n",".","I","n","f","l">>,
    \* function_definition.go:66  __sincospi_stret
    <<"D","o","u","b","l","e","2"," ","_","_","s","i","n","c","o","s","p","i","_","s","t","r","e","t",
      "(","d","o","u","b","l","e",")"," ","-",">"," ","d","a","r","w","i","n",".","S","i","n","c","o",
      "s","p","i","S","t","r","e","t">>,
    \* function_definition.go:67  __sincospif_stret
    <<"F","l","o","a","t","2"," ","_","_","s","i","n","c","o","s","p","i","f","_","s","t","r","e","t",
      "(","f","l","o","a","t",")"," ","-",">"," ","d","a","r","w","i","n",".","S","i","n","c","o","s",
      "p","i","f","S","t","r","e","t">>,
    \* function_definition.go:68  __sincos_stret
    <<"D","o","u","b","l","e","2"," ","_","_","s","i","n","c","o","s","_","s","t","r","e","t","(","d",
      "o","u","b","l","e",")"," ","-",">"," ","d","a","r","w","i","n",".","S","i","n","c","o","s","S",
      "t","r","e","t">>,
    \* function_definition.go:69  __sincosf_stret
    <<"F","l","o","a","t","2"," ","_","_","s","i","n","c","o","s","f","_","s","t","r","e","t","(","f",
      "l","o","a","t",")"," ","-",">"," ","d","a","r","w","i","n",".","S","i","n","c","o","s","f","S",
      "t","r","e","t">>,
    \* function_definition.go:72  __assert_fail
    <<"b","o","o","l"," ","_","_","a","s","s","e","r","t","_","f","a","i","l","(","c","o","n","s","t",
      " ","c","h","a","r","*",","," ","c","o","n","s","t"," ","c","h","a","r","*",","," ","u","n","s",
      "i","g","n","e","d"," ","i","n","t",","," ","c","o","n","s","t"," ","c","h","a","r","*",")"," ",
      "-",">"," ","l","i","n","u","x",".","A","s","s","e","r","t","F","a","i","l">>,
    \* function_definition.go:75  acos
    <<"d","o","u","b","l","e"," ","a","c","o","s","(","d","o","u","b","l","e",")"," ","-",">"," ","m",
      "a","t","h",".","A","c","o","s">>,
    \* function_definition.go:76  asin
    <<"d","o","u","b","l","e"," ","a","s","i","n","(","d","o","u","b","l","e",")"," ","-",">"," ","m",
      "a","t","h",".","A","s","i","n">>,
    \* function_definition.go:77  atan
    <<"d","o","u","b","l","e"," ","a","t","a","n","(","d","o","u","b","l","e",")"," ","-",">"," ","m",
      "a","t","h",".","A","t","a","n">>,
    \* function_definition.go:78  atan2
    <<"d","o","u","b","l","e"," ","a","t","a","n","2","(","d","o","u","b","l","e",")"," ","-",">"," ",
      "m","a","t","h",".","A","t","a","n","2">>,
    \* function_definition.go:79  ceil
    <<"d","o","u","b","l","e"," ","c","e","i","l","(","d","o","u","b","l","e",")"," ","-",">"," ","m",
      "a","t","h",".","C","e","i","l">>,
    \* function_definition.go:80  cos
    <<"d","o","u","b","l","e"," ","c","o","s","(","d","o","u","b","l","e",")"," ","-",">"," ","m","a",
      "t","h",".","C","o","s">>,
    \* function_definition.go:81  cosh
    <<"d","o","u","b","l","e"," ","c","o","s","h","(","d","o","u","b","l","e",")"," ","-",">"," ","m",
      "a","t","h",".","C","o","s","h">>,
    \* function_definition.go:82  exp
    <<"d","o","u","b","l","e"," ","e","x","p","(","d","o","u","b","l","e",")"," ","-",">"," ","m","a",
      "t","h",".","E","x","p">>,
    \* function_definition.go:83  fabs
    <<"d","o","u","b","l","e"," ","f","a","b","s","(","d","o","u","b","l","e",")"," ","-",">"," ","m",
      "a","t","h",".","A","b","s">>,
    \* function_definition.go:84  floor
    <<"d","o","u","b","l","e"," ","f","l","o","o","r","(","d","o","u","b","l","e",")"," ","-",">"," ",
      "m","a","t","h",".","F","l","o","o","r">>,
    \* function_definition.go:85  fmod
    <<"d","o","u","b","l","e"," ","f","m","o","d","(","d","o","u","b","l","e",")"," ","-",">"," ","m",
      "a","t","h",".","M","o","d">>,
    \* function_definition.go:86  ldexp
    <<"d","o","u","b","l","e"," ","l","d","e","x","p","(","d","o","u","b","l","e",")"," ","-",">"," ",
      "m","a","t","h",".","L","d","e","x","p">>,
    \* function_definition.go:87  log
    <<"d","o","u","b","l","e"," ","l","o","g","(","d","o","u","b","l","e",")"," ","-",">"," ","m","a",
      "t","h",".","L","o","g">>,
    \* function_definition.go:88  log10
    <<"d","o","u","b","l","e"," ","l","o","g","1","0","(","d","o","u","b","l","e",")"," ","-",">"," ",
      "m","a","t","h",".","L","o","g","1","0">>,
    \* function_definition.go:89  pow
    <<"d","o","u","b","l","e"," ","p","o","w","(","d","o","u","b","l","e",")"," ","-",">"," ","m","a",
      "t","h",".","P","o","w">>,
    \* function_definition.go:90  sin
    <<"d","o","u","b","l","e"," ","s","i","n","(","d","o","u","b","l","e",")"," ","-",">"," ","m","a",
      "t","h",".","S","i","n">>,
    \* function_definition.go:91  sinh
    <<"d","o","u","b","l","e"," ","s","i","n","h","(","d","o","u","b","l","e",")"," ","-",">"," ","m",
      "a","t","h",".","S","i","n","h">>,
    \* function_definition.go:92  sqrt
    <<"d","o","u","b","l","e"," ","s","q","r","t","(","d","o","u","b","l","e",")"," ","-",">"," ","m",
      "a","t","h",".","S","q","r","t">>,
    \* function_definition.go:93  tan
    <<"d","o","u","b","l","e"," ","t","a","n","(","d","o","u","b","l","e",")"," ","-",">"," ","m","a",
      "t","h",".","T","a","n">>,
    \* function_definition.go:94  tanh
    <<"d","o","u","b","l","e"," ","t","a","n","h","(","d","o","u","b","l","e",")"," ","-",">"," ","m",
      "a","t","h",".","T","a","n","h">>,
    \* function_definition.go:97  printf
    <<"i","n","t"," ","p","r","i","n","t","f","(",")"," ","-",">"," ","f","m","t",".","P","r","i","n",
      "t","f">>,
    \* function_definition.go:98  scanf
    <<"i","n","t"," ","s","c","a","n","f","(",")"," ","-",">"," ","f","m","t",".","S","c","a","n","f">>,
    \* function_definition.go:99  putchar
    <<"i","n","t"," ","p","u","t","c","h","a","r","(","i","n","t",")"," ","-",">"," ","d","a","r","w",
      "i","n",".","P","u","t","c","h","a","r">>,
    \* function_definition.go:100  puts
    <<"i","n","t"," ","p","u","t","s","(","c","o","n","s","t"," ","c","h","a","r"," ","*",")"," ","-",
      ">"," ","f","m","t",".","P","r","i","n","t","l","n">>,
    \* function_definition.go:101  fopen
    <<"F","I","L","E","*"," ","f","o","p","e","n","(","c","o","n","s","t"," ","c","h","a","r"," ","*",
      ","," ","c","o","n","s","t"," ","c","h","a","r"," ","*",")"," ","-",">"," ","n","o","a","r","c",
      "h",".","F","o","p","e","n">>,
    \* function_definition.go:102  fclose
    <<"i","n","t"," ","f","c","l","o","s","e","(","i","n","t",")"," ","-",">"," ","n","o","a","r","c",
      "h",".","F","c","l","o","s","e">>,
    \* function_definition.go:105  atoi
    <<"i","n","t"," ","a","t","o","i","(","c","o","n","s","t"," ","c","h","a","r","*",")"," ","-",">",
      " ","n","o","a","r","c","h",".","A","t","o","i">>,
    \* function_definition.go:106  strtol
    <<"l","o","n","g"," ","s","t","r","t","o","l","(","c","o","n","s","t"," ","c","h","a","r"," ","*",
      ","," ","c","h","a","r"," ","*","*",","," ","i","n","t",")"," ","-",">"," ","n","o","a","r","c",
      "h",".","S","t","r","t","o","l">>,
    \* function_definition.go:109  __builtin_bswap32
    <<"u","i","n","t","3","2"," ","_","_","b","u","i","l","t","i","n","_","b","s","w","a","p","3","2",
      "(","u","i","n","t","3","2",")"," ","-",">"," ","d","a","r","w","i","n",".","B","S","w","a","p",
      "3","2">>,
    \* function_definition.go:110  __builtin_bswap64
    <<"u","i","n","t","6","4"," ","_","_","b","u","i","l","t","i","n","_","b","s","w","a","p","6","4",
      "(","u","i","n","t","6","4",")"," ","-",">"," ","d","a","r","w","i","n",".","B","S","w","a","p",
      "6","4">>
  >>

\* `.` of the regular expression: any character but a line break.
Dot(s) == \A i \in 1..Len(s) : s[i] # "\n"

\* regexp.MustCompile(`^(.+) (.+)\((.*)\)( -> .*)?$`).FindStringSubmatch(f):
\* the groups 0..4 of the match, or the empty sequence (nil) without a match.
\* Every quantifier is greedy and the match is leftmost-first: group 1 ends at
\* the last blank after which the rest still matches, group 2 at the last "("
\* and group 3 at the last ")" likewise; group 4 is the whole rest, which is
\* empty or starts with " -> ".
FindStringSubmatch(f) ==
  LET n == Len(f)
      RestOK(k) == \/ k = n
                   \/ /\ HasPrefix(SubSeq(f, k + 1, n), s_arrow)
                      /\ Dot(SubSeq(f, k + 1, n))
      Closes(j) == {k \in (j + 1)..n :
                      /\ f[k] = ")"
                      /\ Dot(SubSeq(f, j + 1, k - 1))
                      /\ RestOK(k)}
      Opens(i)  == {j \in (i + 2)..n :
                      /\ f[j] = "("
                      /\ Dot(SubSeq(f, i + 1, j - 1))
                      /\ Closes(j) # {}}
      Blanks    == {i \in 2..n :
                      /\ f[i] = " "
                      /\ Dot(SubSeq(f, 1, i - 1))
                      /\ Opens(i) # {}}
      Max(S)    == CHOOSE x \in S : \A y \in S : y <= x
  IN  IF Blanks = {} THEN << >>
      ELSE LET i == Max(Blanks)
               j == Max(Opens(i))
               k == Max(Closes(j))
           IN  [g \in 0..4 |->
                  CASE g = 0 -> f
                    [] g = 1 -> SubSeq(f, 1, i - 1)
                    [] g = 2 -> SubSeq(f, i + 1, j - 1)
                    [] g = 3 -> SubSeq(f, j + 1, k - 1)
                    [] g = 4 -> SubSeq(f, k + 1, n)]

\* The body of the loop of loadFunctionDefinitions up to the call of
\* AddFunctionDefinition: the entry that one line of the table declares.
ParseBuiltIn(f) ==
  LET match == FindStringSubmatch(f)
      split == Split(match[3], ",")
      trimmed == [i \in 1..Len(split) |-> TrimSpace(split[i])]
      argumentTypes == IF Len(trimmed) = 1 /\ trimmed[1] = << >>
                       THEN << >> ELSE trimmed
      stripped == IF match[4] # << >>
                  THEN TrimLeft(match[4], CharsOf(s_trim_arrow))
                  ELSE match[4]
      substitution == IF \/ HasPrefix(stripped, s_darwin_dot)
                         \/ HasPrefix(stripped, s_linux_dot)
                         \/ HasPrefix(stripped, s_noarch_dot)
                      THEN s_root \o stripped
                      ELSE stripped
  IN  FunctionDefinition(match[2], match[1], argumentTypes, substitution)

\* The entries of the table, in its order (each line is parsed once per load;
\* the table is constant, so are its entries).
parsedBuiltIns ==
  [i \in 1..Len(builtInFunctionDefinitions) |->
     ParseBuiltIn(builtInFunctionDefinitions[i])]

\* The names the table declares.
BuiltInNames == {parsedBuiltIns[i].Name : i \in 1..Len(parsedBuiltIns)}

(***************************************************************************)
(* The state of the program as one record, so that a function of the code  *)
(* is an operator from a state (and its arguments) to a state (and its     *)
(* results):                                                               *)
(*   functionDefinitions  var functionDefinitions (the registry)           *)
(*   haveBeenLoaded       var builtInFunctionDefinitionsHaveBeenLoaded     *)
(*   loads                how often the body of loadFunctionDefinitions    *)
(*                        (the reset and the loop) has been entered        *)
(*   FunctionName         p.FunctionName (the translation context)         *)
(*   imports              the imports recorded by p.AddImport              *)
(*   Decls                p.File.Decls (the emitted declarations)          *)
(***************************************************************************)
\* F(v) with v evaluated first and once (Go evaluates a value when it is
\* assigned; an operator of TLA+ is evaluated where it is used).
With(v, F(_)) == CHOOSE r \in {F(x) : x \in {v}} : TRUE

\* The map a Go map variable holds before it is assigned, and map[..]..{}.
EmptyMap == << >>

\* functionDefinitions[f.Name] = f
MapPut(m, key, value) == (key :> value) @@ m

RECURSIVE loadFunctionDefinitions(_)
RECURSIVE AddFunctionDefinition(_, _)

\* A registration that keeps the substitution of the entry it replaces when
\* the new entry has none.
AddFunctionDefinition_merging(s, f) ==
  LET t == loadFunctionDefinitions(s)
      old  == IF f.Name \in DOMAIN t.functionDefinitions
             THEN t.functionDefinitions[f.Name] ELSE f
      merged == IF f.Substitution = s_empty
                THEN [f EXCEPT !.Substitution = old.Substitution] ELSE f
  IN  [t EXCEPT !.functionDefinitions = MapPut(@, f.Name, merged)]

\* func AddFunctionDefinition(f FunctionDefinition)
AddFunctionDefinition(s, f) ==
  With(loadFunctionDefinitions(s),
       LAMBDA t : [t EXCEPT !.functionDefinitions = MapPut(@, f.Name, f)])

\* A load that fills the map itself and never sets the flag.
loadFunctionDefinitions_flagNeverSet(s) ==
  IF s.haveBeenLoaded THEN s
  ELSE [s EXCEPT !.functionDefinitions =
                    [name \in BuiltInNames |->
                       LET i == CHOOSE k \in 1..Len(parsedBuiltIns) :
                                   parsedBuiltIns[k].Name = name
                       IN  parsedBuiltIns[i]],
                 !.loads = @ + 1]

\* Lines 141-171: the loop of loadFunctionDefinitions over the lines lo..hi of
\* the table, split in halves, the first half first, which keeps the order of
\* the loop.  Each line is registered by AddFunctionDefinition, which calls
\* loadFunctionDefinitions again.
RECURSIVE loadLoop(_, _, _)
loadLoop(s, lo, hi) ==
  IF lo > hi THEN s
  ELSE IF lo = hi THEN AddFunctionDefinition(s, parsedBuiltIns[lo])
  ELSE With(loadLoop(s, lo, (lo + hi) \div 2),
            LAMBDA t : loadLoop(t, (lo + hi) \div 2 + 1, hi))

\* func loadFunctionDefinitions(): the map is reset and the flag is set before
\* the loop.
loadFunctionDefinitions(s) ==
  IF s.haveBeenLoaded THEN s
  ELSE loadLoop([s EXCEPT !.functionDefinitions = EmptyMap,
                          !.haveBeenLoaded = TRUE,
                          !.loads = @ + 1],
                1, Len(builtInFunctionDefinitions))

\* func GetFunctionDefinition(functionName string) *FunctionDefinition:
\* the state after the call and the entry (a copy), or Nil.
GetFunctionDefinition(s, functionName) ==
  With(loadFunctionDefinitions(s),
       LAMBDA t : [s |-> t,
                   f |-> IF functionName \in DOMAIN t.functionDefinitions
                         THEN t.functionDefinitions[functionName]
                         ELSE Nil])

(***************************************************************************)
(* The collaborators of transpiler/functions.go, which are not part of the *)
(* sources at hand; they are modelled from the specification (sections 4   *)
(* and 6).                                                                 *)
(***************************************************************************)
\* p.AddImport(importName): records a required import of the output module.
AddImport(s, importName) == [s EXCEPT !.imports = @ \cup {importName}]

\* types.CastExpr(p, e, fromType, toType): an explicit cast of e.
CastExpr(s, e, fromType, toType) ==
  [kind |-> "CastExpr", X |-> e, From |-> fromType, To |-> toType]

\* types.ResolveType(p, cType): the target type of a C type.
ResolveType(s, cType) == [kind |-> "GoType", Of |-> cType]

\* goast.NewIdent(name)
NewIdent(name) == [kind |-> "Ident", Name |-> name]

(***************************************************************************)
(* transpiler/functions.go                                                 *)
(*                                                                         *)
(* Nodes of the C tree (the input):                                        *)
(*   [node |-> "IntegerLiteral", Value, Type]                              *)
(*   [node |-> "DeclRefExpr", Name, Type]                                  *)
(*   [node |-> "CallExpr", Callee, Args]   Callee is the Name of the       *)
(*        DeclRefExpr under the first child, Args are n.Children[1:]       *)
(*   [node |-> "ReturnStmt", Children]                                     *)
(*   [node |-> "ParmVarDecl", Name, Type]                                  *)
(*   [node |-> "CompoundStmt", Children]                                   *)
(*   [node |-> "FunctionDecl", Name, Type, Children]                       *)
(***************************************************************************)
\* Lines 42-43: the import of a substitution, all of it before its last ".".
importNameOf(substitution) ==
  LET parts == Split(substitution, ".")
  IN  Join(SubSeq(parts, 1, Len(parts) - 1), ".")

\* A call target that is the symbol after the last "." of the substitution.
functionNameOf_bareSymbol(substitution) ==
  LET parts2 == Split(substitution, ".")
  IN  parts2[Len(parts2)]

\* Lines 46-47: the call target of a substitution, all of it after its last "/".
functionNameOf(substitution) ==
  LET parts2 == Split(substitution, "/")
  IN  parts2[Len(parts2)]

\* An argument test that is off by one: the last declared parameter counts as
\* a variable argument.
isVarArg_offByOne(i, functionDef) == i >= Len(functionDef.ArgumentTypes) - 1

\* Line 58: whether argument i (from 0) lies beyond the declared parameters.
isVarArg(i, functionDef) == i > Len(functionDef.ArgumentTypes) - 1

RECURSIVE transpileCallExpr(_, _)
RECURSIVE transpileToExpr(_, _)
RECURSIVE transpileArgs(_, _, _, _, _)

\* transpileToExpr(node, p), from the specification: the target expression of a
\* node, its C type and an error. A call is handed to transpileCallExpr.
transpileToExpr(node, s) ==
  CASE node.node = "IntegerLiteral" ->
         [s |-> s, e |-> [kind |-> "BasicLit", Value |-> node.Value],
          eType |-> node.Type, err |-> Nil]
    [] node.node = "DeclRefExpr" ->
         [s |-> s, e |-> NewIdent(node.Name), eType |-> node.Type, err |-> Nil]
    [] node.node = "CallExpr" -> transpileCallExpr(node, s)

\* Lines 50-67: the loop over the arguments, from argument i (from 0) on, with
\* the arguments translated so far.
transpileArgs(children, i, functionDef, args, s) ==
  IF i >= Len(children) THEN [s |-> s, args |-> args, err |-> Nil]
  ELSE With(transpileToExpr(children[i + 1], s),
         LAMBDA r :
           IF r.err # Nil THEN [s |-> r.s, args |-> args, err |-> r.err]
           ELSE transpileArgs(children, i + 1, functionDef,
                  Append(args,
                    IF isVarArg(i, functionDef) THEN r.e
                    ELSE CastExpr(r.s, r.e, r.eType,
                                  functionDef.ArgumentTypes[i + 1])),
                  r.s))

\* A call translation that translates the arguments before it looks at the
\* result of the lookup.
transpileCallExpr_argsFirst(n, s) ==
  LET got == GetFunctionDefinition(s, n.Callee)
      r == transpileArgs(n.Args, 0,
             IF got.f = Nil
             THEN FunctionDefinition(n.Callee, s_empty, << >>, s_empty)
             ELSE got.f,
             << >>, got.s)
  IN  IF got.f = Nil
      THEN [s |-> r.s, e |-> Nil, eType |-> s_empty,
            err |-> s_unknown_function \o n.Callee]
      ELSE IF r.err # Nil
      THEN [s |-> r.s, e |-> Nil, eType |-> s_unknown2, err |-> r.err]
      ELSE LET sub == got.f.Substitution
           IN  [s |-> IF sub # s_empty THEN AddImport(r.s, importNameOf(sub))
                      ELSE r.s,
                e |-> [kind |-> "CallExpr",
                       Fun |-> NewIdent(IF sub # s_empty
                                        THEN functionNameOf(sub) ELSE n.Callee),
                       Args |-> r.args],
                eType |-> got.f.ReturnType, err |-> Nil]

\* Lines 41-73 of transpileCallExpr: the call of a function that has the entry
\* functionDef.
transpileKnownCall(n, functionDef, s) ==
  LET substituted == functionDef.Substitution # s_empty
      s1 == IF substituted
            THEN AddImport(s, importNameOf(functionDef.Substitution))
            ELSE s
      functionName == IF substituted
                      THEN functionNameOf(functionDef.Substitution)
                      ELSE n.Callee
  IN  With(transpileArgs(n.Args, 0, functionDef, << >>, s1),
        LAMBDA r :
          IF r.err # Nil
          THEN [s |-> r.s, e |-> Nil, eType |-> s_unknown2, err |-> r.err]
          ELSE [s |-> r.s,
                e |-> [kind |-> "CallExpr", Fun |-> NewIdent(functionName),
                       Args |-> r.args],
                eType |-> functionDef.ReturnType, err |-> Nil])

\* func transpileCallExpr(n *ast.CallExpr, p *program.Program)
\*   (*goast.CallExpr, string, error)
transpileCallExpr(n, s) ==
  With(GetFunctionDefinition(s, n.Callee),
    LAMBDA got :
      IF got.f = Nil
      THEN [s |-> got.s, e |-> Nil, eType |-> s_empty,
            err |-> s_unknown_function \o n.Callee]
      ELSE transpileKnownCall(n, got.f, got.s))

\* A test that sends only literals other than 0 to os.Exit.
exitsProcess_literalsOnly(e) == e.kind = "BasicLit" /\ e.Value # s_0

\* Lines 215-216: whether a return of the entry point becomes a call of
\* os.Exit: e is no literal, or a literal other than "0".
exitsProcess(e) ==
  LET isLiteral == e.kind = "BasicLit"
  IN  ~isLiteral \/ (isLiteral /\ e.Value # s_0)

\* A choice of the type to cast to that takes the type of the operand.
returnTypeOf_operand(f, eType) == eType

\* Line 211: the type a returned expression is cast to, f.ReturnType.
returnTypeOf(f, eType) == f.ReturnType

\* Lines 209-230 of transpileReturnStmt: the statement for the expression e of
\* C type eType, with f the entry of p.FunctionName.  f.ReturnType of a nil f
\* panics.
returnOf(e, eType, f, s) ==
  IF f = Nil
  THEN [s |-> s, stmt |-> Nil, err |-> Nil, panic |-> TRUE]
  ELSE
    LET results == <<CastExpr(s, e, eType, returnTypeOf(f, eType))>>
    IN  IF s.FunctionName = s_main
        THEN IF exitsProcess(e)
             THEN [s |-> AddImport(s, s_os),
                   stmt |-> [kind |-> "ExprStmt",
                             X |-> [kind |-> "CallExpr",
                                    Fun |-> NewIdent(s_os_Exit),
                                    Args |-> results]],
                   err |-> Nil, panic |-> FALSE]
             ELSE [s |-> s,
                   stmt |-> [kind |-> "ReturnStmt", Results |-> << >>],
                   err |-> Nil, panic |-> FALSE]
        ELSE [s |-> s,
              stmt |-> [kind |-> "ReturnStmt", Results |-> results],
              err |-> Nil, panic |-> FALSE]

\* func transpileReturnStmt(n *ast.ReturnStmt, p *program.Program)
\*   (goast.Stmt, error)
\* n.Children[0] of a return without operand panics.
transpileReturnStmt(n, s) ==
  IF Len(n.Children) = 0
  THEN [s |-> s, stmt |-> Nil, err |-> Nil, panic |-> TRUE]
  ELSE With(transpileToExpr(n.Children[1], s),
         LAMBDA r :
           IF r.err # Nil
           THEN [s |-> r.s, stmt |-> Nil, err |-> r.err, panic |-> FALSE]
           ELSE With(GetFunctionDefinition(r.s, r.s.FunctionName),
                  LAMBDA got : returnOf(r.e, r.eType, got.f, got.s)))

\* The statement translator, from the specification: a return statement is
\* handed to transpileReturnStmt, an expression becomes an expression statement.
transpileToStmt(node, s) ==
  IF node.node = "ReturnStmt" THEN transpileReturnStmt(node, s)
  ELSE With(transpileToExpr(node, s),
         LAMBDA r :
           [s |-> r.s,
            stmt |-> IF r.err # Nil THEN Nil
                     ELSE [kind |-> "ExprStmt", X |-> r.e],
            err |-> r.err, panic |-> FALSE])

\* transpileToBlockStmt(b, p), from the specification: the statements of the
\* block in their order; the first error ends the translation.  `done` are the
\* statements translated before the block ended, also when it ended early.
RECURSIVE transpileStmts(_, _, _)
transpileStmts(children, done, s) ==
  IF Len(children) = 0
  THEN [s |-> s, done |-> done, err |-> Nil, panic |-> FALSE]
  ELSE With(transpileToStmt(Head(children), s),
         LAMBDA r :
           IF r.panic \/ r.err # Nil
           THEN [s |-> r.s, done |-> done, err |-> r.err, panic |-> r.panic]
           ELSE transpileStmts(Tail(children), Append(done, r.stmt), r.s))

transpileToBlockStmt(b, s) ==
  With(transpileStmts(b.Children, << >>, s),
    LAMBDA r :
      [s |-> r.s,
       body |-> IF r.panic \/ r.err # Nil THEN Nil
                ELSE [kind |-> "BlockStmt", List |-> r.done],
       done |-> r.done, err |-> r.err, panic |-> r.panic])

\* func getFunctionReturnType(f string) string: the return type, or the panic
\* of lines 246-248 with its message when nothing precedes the first "(".
getFunctionReturnType(f) ==
  LET returnType == TrimSpace(Split(f, "(")[1])
  IN  IF returnType = s_empty
      THEN [panic |-> TRUE, message |-> s_unable \o f]
      ELSE [panic |-> FALSE, returnType |-> returnType]

\* The nodes of one kind among the children, in their order.
ChildrenOfKind(n, kind) ==
  SelectSeq(n.Children, LAMBDA c : c.node = kind)

\* func getFunctionArgumentTypes(f *ast.FunctionDecl) []string
getFunctionArgumentTypes(f) ==
  LET parms == ChildrenOfKind(f, "ParmVarDecl")
  IN  [i \in 1..Len(parms) |-> parms[i].Type]

\* func getFieldList(f *ast.FunctionDecl, p *program.Program)
\*   (*goast.FieldList, error): the List of the FieldList.
getFieldList(f, s) ==
  IF f.Name = s_main THEN << >>
  ELSE LET parms == ChildrenOfKind(f, "ParmVarDecl")
       IN  [i \in 1..Len(parms) |->
              [Names |-> <<NewIdent(parms[i].Name)>>,
               Type |-> ResolveType(s, parms[i].Type)]]

\* A list of the ignored functions that misses __wcwidth.
isIgnoredFunction_incomplete(name) ==
  name \in {s_istype, s_isctype, s_sputc, s_signbitf, s_signbitd, s_signbitl}

\* Lines 137-143: the functions that are never emitted.
isIgnoredFunction(name) ==
  \/ name = s_istype
  \/ name = s_isctype
  \/ name = s_wcwidth
  \/ name = s_sputc
  \/ name = s_signbitf
  \/ name = s_signbitd
  \/ name = s_signbitl

\* A registration on every declaration, also of a name that has an entry.
registerPrototype_always(n, s) ==
  With(getFunctionReturnType(n.Type),
    LAMBDA rt :
      IF rt.panic
      THEN [s |-> loadFunctionDefinitions(s), panic |-> TRUE]
      ELSE [s |-> AddFunctionDefinition(s,
                    FunctionDefinition(n.Name, rt.returnType,
                                       getFunctionArgumentTypes(n), s_empty)),
            panic |-> FALSE])

\* Lines 95-102: the declaration is registered unless its name has an entry;
\* the registration panics in getFunctionReturnType, before the entry is
\* added, when the type of the declaration has no return type.
registerPrototype(n, s) ==
  With(GetFunctionDefinition(s, n.Name),
    LAMBDA got :
      IF got.f = Nil
      THEN With(getFunctionReturnType(n.Type),
             LAMBDA rt :
               IF rt.panic
               THEN [s |-> got.s, panic |-> TRUE]
               ELSE [s |-> AddFunctionDefinition(got.s,
                             FunctionDefinition(n.Name, rt.returnType,
                               getFunctionArgumentTypes(n), s_empty)),
                     panic |-> FALSE])
      ELSE [s |-> got.s, panic |-> FALSE])

\* Lines 132-176 of transpileFunctionDecl: what follows the translation b of
\* the body (hasBody: there is one), with f the entry read at line 106.
emitFunctionDecl(n, f, hasBody, b) ==
  IF b.panic \/ b.err # Nil
  THEN [s |-> b.s, err |-> b.err, panic |-> b.panic, done |-> b.done]
  ELSE IF isIgnoredFunction(n.Name) \/ ~hasBody
  THEN [s |-> b.s, err |-> Nil, panic |-> FALSE, done |-> b.done]
  ELSE
    LET fieldList == getFieldList(n, b.s)
        returnTypes ==
          IF b.s.FunctionName = s_main THEN << >>
          ELSE <<[Type |-> ResolveType(b.s, f.ReturnType)]>>
        decl == [kind |-> "FuncDecl",
                 Name |-> NewIdent(n.Name),
                 Params |-> fieldList,
                 Results |-> returnTypes,
                 Body |-> b.body]
    IN  [s |-> [b.s EXCEPT !.Decls = Append(@, decl)],
         err |-> Nil, panic |-> FALSE, done |-> b.done]

\* Lines 106-130 of transpileFunctionDecl: the entry is read again, a function
\* with a substitution is left out, and the first CompoundStmt among the
\* children is translated.
translateBody(n, s) ==
  With(GetFunctionDefinition(s, n.Name),
    LAMBDA got :
      IF got.f # Nil /\ got.f.Substitution # s_empty
      THEN [s |-> got.s, err |-> Nil, panic |-> FALSE, done |-> << >>]
      ELSE
        LET blocks == ChildrenOfKind(n, "CompoundStmt")
        IN  IF Len(blocks) > 0
            THEN With(transpileToBlockStmt(blocks[1], got.s),
                      LAMBDA b : emitFunctionDecl(n, got.f, TRUE, b))
            ELSE emitFunctionDecl(n, got.f, FALSE,
                   [s |-> got.s, body |-> Nil, done |-> << >>,
                    err |-> Nil, panic |-> FALSE]))

\* func transpileFunctionDecl(n *ast.FunctionDecl, p *program.Program) error
\* `done` are the statements of the body that were translated.
transpileFunctionDecl(n, s) ==
  With(registerPrototype(n, [s EXCEPT !.FunctionName = n.Name]),
    LAMBDA r :
      IF r.panic
      THEN [s |-> r.s, err |-> Nil, panic |-> TRUE, done |-> << >>]
      ELSE translateBody(n, r.s))

(***************************************************************************)
(* The state machine.                                                      *)
(*                                                                         *)
(* Besides the state of the program, the model records what was asked and  *)
(* answered:                                                               *)
(*   last      the last call of the registry or of the call translator,    *)
(*             with its arguments and results                              *)
(*   lastReg   for each name, the entry a caller registered last           *)
(*   file      the function declarations translated so far, in file order, *)
(*             each with its outcome                                       *)
(*   panicked  whether the process has ended in a panic                    *)
(***************************************************************************)
VARIABLES functionDefinitions, builtInFunctionDefinitionsHaveBeenLoaded,
          loads, FunctionName, imports, Decls, panicked, last, lastReg, file

vars == <<functionDefinitions, builtInFunctionDefinitionsHaveBeenLoaded,
          loads, FunctionName, imports, Decls, panicked, last, lastReg, file>>

State ==
  [functionDefinitions |-> functionDefinitions,
   haveBeenLoaded |-> builtInFunctionDefinitionsHaveBeenLoaded,
   loads |-> loads,
   FunctionName |-> FunctionName,
   imports |-> imports,
   Decls |-> Decls]

Commit(t) ==
  /\ functionDefinitions' = t.functionDefinitions
  /\ builtInFunctionDefinitionsHaveBeenLoaded' = t.haveBeenLoaded
  /\ loads' = t.loads
  /\ FunctionName' = t.FunctionName
  /\ imports' = t.imports
  /\ Decls' = t.Decls

Init ==
  /\ functionDefinitions = EmptyMap
  /\ builtInFunctionDefinitionsHaveBeenLoaded = FALSE
  /\ loads = 0
  /\ FunctionName = s_empty
  /\ imports = {}
  /\ Decls = << >>
  /\ panicked = FALSE
  /\ last = [op |-> "none"]
  /\ lastReg = EmptyMap
  /\ file = << >>

(***************************************************************************)
(* The inputs.                                                             *)
(***************************************************************************)
IntegerLiteral(value) ==
  [node |-> "IntegerLiteral", Value |-> value, Type |-> s_int]
DeclRefExpr(name, type) == [node |-> "DeclRefExpr", Name |-> name, Type |-> type]
CallExpr(callee, args) == [node |-> "CallExpr", Callee |-> callee, Args |-> args]
ReturnStmt(children) == [node |-> "ReturnStmt", Children |-> children]
ParmVarDecl(name, type) == [node |-> "ParmVarDecl", Name |-> name, Type |-> type]
CompoundStmt(children) == [node |-> "CompoundStmt", Children |-> children]
FunctionDecl(name, type, children) ==
  [node |-> "FunctionDecl", Name |-> name, Type |-> type, Children |-> children]

\* The names that are looked up.
LookupNames == {s_foo, s_bar, s_printf, s_pow, s_main}

\* The entries that callers register: new names and names of the table, with
\* and without a substitution, of several arities.
RegisteredEntries ==
  {FunctionDefinition(s_foo, s_int, <<s_int>>, s_empty),
   FunctionDefinition(s_foo, s_double, << >>, s_math_Pow),
   FunctionDefinition(s_foo, s_int, <<s_int, s_double>>, s_empty),
   FunctionDefinition(s_printf, s_int, <<s_charp>>, s_empty),
   FunctionDefinition(s_pow, s_double, <<s_double, s_double>>, s_math_Pow),
   FunctionDefinition(s_bar, s_void, << >>, s_empty)}

\* The entries that are registered between the calls that are translated.
CallEntries ==
  {FunctionDefinition(s_foo, s_int, <<s_int, s_double>>, s_empty),
   FunctionDefinition(s_foo, s_double, <<s_double>>, s_math_Pow)}

\* The arguments of the calls: a variable and a call.
ArgPool == {DeclRefExpr(s_x, s_charp), CallExpr(s_foo, << >>)}

ArgLists == UNION {[1..k -> ArgPool] : k \in 0..MaxArgs}

\* The calls: of functions of the table without and with declared parameters
\* (printf, __builtin_fabs), of foo, which has an entry once it is registered,
\* and of bar, which never has one.
CallExprs ==
  {CallExpr(callee, args) : callee \in {s_printf, s_fabs, s_foo, s_bar},
                            args \in ArgLists}

\* The bodies of the declarations (none: a forward declaration).
NoBody == << >>
Bodies ==
  {NoBody,
   <<CompoundStmt(<< >>)>>,
   <<CompoundStmt(<<ReturnStmt(<<IntegerLiteral(s_0)>>)>>)>>,
   <<CompoundStmt(<<ReturnStmt(<<IntegerLiteral(s_1)>>)>>)>>,
   <<CompoundStmt(<<ReturnStmt(<<DeclRefExpr(s_y, s_double)>>)>>)>>,
   <<CompoundStmt(<<CallExpr(s_printf, <<DeclRefExpr(s_y, s_double)>>),
                    ReturnStmt(<<IntegerLiteral(s_0)>>)>>)>>,
   <<CompoundStmt(<<ReturnStmt(<<CallExpr(s_foo, <<IntegerLiteral(s_1)>>)>>)>>)>>,
   <<CompoundStmt(<<CallExpr(s_bar, << >>)>>)>>,
   <<CompoundStmt(<<ReturnStmt(<< >>)>>)>>}

\* The declarations: the entry point, a function declared with either of two
\* return types and with none, an ignored function and a function of the
\* table.
Prototypes ==
  {<<s_main, s_int_fn, << >> >>,
   <<s_foo, s_int_int_fn, <<ParmVarDecl(s_x, s_int)>> >>,
   <<s_foo, s_double_int_fn, <<ParmVarDecl(s_x, s_int)>> >>,
   <<s_foo, s_noret_fn, <<ParmVarDecl(s_x, s_int)>> >>,
   <<s_wcwidth, s_int_int_fn, <<ParmVarDecl(s_x, s_int)>> >>,
   <<s_pow, s_double_double_fn, <<ParmVarDecl(s_x, s_double)>> >>}

FunctionDecls ==
  {FunctionDecl(p[1], p[2], p[3] \o body) : p \in Prototypes, body \in Bodies}

(***************************************************************************)
(* The actions: one per function of the code that is called from outside.  *)
(***************************************************************************)
DoGetFunctionDefinition(functionName) ==
  /\ ~panicked
  /\ \E r \in {GetFunctionDefinition(State, functionName)} :
         /\ Commit(r.s)
         /\ last' = [op |-> "Get", name |-> functionName, f |-> r.f]
  /\ UNCHANGED <<panicked, lastReg, file>>

DoAddFunctionDefinition(f) ==
  /\ ~panicked
  /\ \E t \in {AddFunctionDefinition(State, f)} : Commit(t)
  /\ last' = [op |-> "Add", f |-> f]
  /\ lastReg' = MapPut(lastReg, f.Name, f)
  /\ UNCHANGED <<panicked, file>>

DoTranspileCallExpr(n) ==
  /\ ~panicked
  /\ \E r \in {transpileCallExpr(n, State)} :
         /\ Commit(r.s)
         /\ last' = [op |-> "Call", n |-> n, e |-> r.e, eType |-> r.eType,
                     err |-> r.err]
  /\ UNCHANGED <<panicked, lastReg, file>>

DoTranspileFunctionDecl(n) ==
  /\ ~panicked
  /\ Len(file) < MaxFileDecls
  /\ \E r \in {transpileFunctionDecl(n, State)} :
         /\ Commit(r.s)
         /\ panicked' = r.panic
         /\ file' = Append(file, [n |-> n, err |-> r.err, panic |-> r.panic,
                                  done |-> r.done,
                                  imported |-> r.s.imports \ imports])
  /\ UNCHANGED <<last, lastReg>>

\* The registry and its callers.
NextRegistry ==
  \/ \E functionName \in LookupNames : DoGetFunctionDefinition(functionName)
  \/ \E f \in RegisteredEntries : DoAddFunctionDefinition(f)

SpecRegistry == Init /\ [][NextRegistry]_vars

\* The translation of calls, between registrations.
NextCall ==
  \/ \E f \in CallEntries : DoAddFunctionDefinition(f)
  \/ \E n \in CallExprs : DoTranspileCallExpr(n)

SpecCall == Init /\ [][NextCall]_vars

\* The translation of the declarations of a file, in file order.
NextDecl == \E n \in FunctionDecls : DoTranspileFunctionDecl(n)

SpecDecl == Init /\ [][NextDecl]_vars

(***************************************************************************)
(* Definitions for the properties.                                         *)
(***************************************************************************)
\* The registry as a lookup sees it: the map after the load.
Registry == loadFunctionDefinitions(State).functionDefinitions

\* The entry the table declares for a name (its last line of that name).
BuiltIn(name) ==
  LET i == CHOOSE k \in 1..Len(parsedBuiltIns) :
             /\ parsedBuiltIns[k].Name = name
             /\ \A j \in (k + 1)..Len(parsedBuiltIns) :
                  parsedBuiltIns[j].Name # name
  IN  parsedBuiltIns[i]

\* The entry a lookup of a name is to return: the entry a caller registered
\* last, else the entry of the table, else none.
Expected(name) ==
  IF name \in DOMAIN lastReg THEN lastReg[name]
  ELSE IF name \in BuiltInNames THEN BuiltIn(name)
  ELSE Nil

\* The place of the last c in s (0: there is none), and s after and before it.
LastIndex(s, c) ==
  IF \E i \in 1..Len(s) : s[i] = c
  THEN CHOOSE i \in 1..Len(s) : s[i] = c /\ \A j \in (i + 1)..Len(s) : s[j] # c
  ELSE 0
AfterLast(s, c) == SubSeq(s, LastIndex(s, c) + 1, Len(s))
BeforeLast(s, c) == SubSeq(s, 1, LastIndex(s, c) - 1)

\* Whether the target expression e is from the node: a literal of its value,
\* an identifier of its name, a call with as many arguments.
IsFrom(e, node) ==
  CASE node.node = "IntegerLiteral" -> e = [kind |-> "BasicLit", Value |-> node.Value]
    [] node.node = "DeclRefExpr" -> e = [kind |-> "Ident", Name |-> node.Name]
    [] node.node = "CallExpr" ->
         /\ e.kind = "CallExpr"
         /\ Len(e.Args) = Len(node.Args)

\* Whether e is a cast of the translation of the node to the type toType.
IsCastOf(e, node, toType) ==
  /\ e.kind = "CastExpr"
  /\ e.To = toType
  /\ IsFrom(e.X, node)
  /\ node.node # "CallExpr" => e.From = node.Type

\* The seven names that are never emitted.
Denylist ==
  {s_istype, s_isctype, s_wcwidth, s_sputc, s_signbitf, s_signbitd, s_signbitl}

\* The statements of the body of a declaration (none without a body).
BodyOf(n) ==
  LET blocks == SelectSeq(n.Children, LAMBDA c : c.node = "CompoundStmt")
  IN  IF Len(blocks) = 0 THEN << >> ELSE blocks[1].Children
HasBody(n) == \E i \in 1..Len(n.Children) : n.Children[i].node = "CompoundStmt"

\* The last call that was translated, when it succeeded.
CallDone == last.op = "Call" /\ last.err = Nil

(***************************************************************************)
(* C1.  A lookup returns exactly the entry registered last under the name: *)
(* the entry a caller registered last, whole, else the entry of the        *)
(* built-in table, else nothing; and the registry holds each entry under   *)
(* its own name, one per name.                                             *)
(***************************************************************************)
C1_LastRegistrationWins ==
  /\ \A name \in DOMAIN functionDefinitions :
       functionDefinitions[name].Name = name
  /\ \A name \in LookupNames :
       GetFunctionDefinition(State, name).f = Expected(name)
  /\ last.op = "Get" => last.f = Expected(last.name)

\* A built-in name was registered again by a caller, and the lookup returned
\* the caller's entry, which has no substitution.
C1_Witness ==
  /\ last.op = "Get"
  /\ last.name = s_printf
  /\ last.f = FunctionDefinition(s_printf, s_int, <<s_charp>>, s_empty)
  /\ BuiltIn(s_printf).Substitution = s_fmt_Printf

(***************************************************************************)
(* C2.  The built-in table is loaded exactly once: after any call of the   *)
(* registry the flag is set and the load has run once, every name of the   *)
(* table has an entry, and every entry a caller registered is still there. *)
(***************************************************************************)
C2_LoadedOnce ==
  /\ loads <= 1
  /\ builtInFunctionDefinitionsHaveBeenLoaded <=> loads = 1
  /\ last.op # "none" => builtInFunctionDefinitionsHaveBeenLoaded
  /\ builtInFunctionDefinitionsHaveBeenLoaded =>
       /\ BuiltInNames \subseteq DOMAIN functionDefinitions
       /\ \A name \in DOMAIN lastReg :
            /\ name \in DOMAIN functionDefinitions
            /\ functionDefinitions[name] = lastReg[name]

\* A lookup after registrations by callers, of a new name and of a built-in.
C2_Witness ==
  /\ loads = 1
  /\ last.op = "Get"
  /\ {s_foo, s_pow} \subseteq DOMAIN lastReg
  /\ Cardinality(DOMAIN functionDefinitions) = Cardinality(BuiltInNames) + 1

(***************************************************************************)
(* C3.  The translation of a call of a name without entry fails with       *)
(* "unknown function: <name>" and without a call node, and leaves the      *)
(* imports, the registry and the emitted declarations as they were: no     *)
(* argument has been translated.                                           *)
(***************************************************************************)
C3_UnknownFunction ==
  [][(last'.op = "Call" /\ last'.n.Callee \notin DOMAIN Registry) =>
       /\ last'.err = s_unknown_function \o last'.n.Callee
       /\ last'.e = Nil
       /\ imports' = imports
       /\ Registry' = Registry
       /\ Decls' = Decls]_vars

\* The call of an unknown name failed; one of its arguments is a call of a
\* function with a substitution, whose import has not been recorded.
C3_Witness ==
  /\ last.op = "Call"
  /\ last.n.Callee = s_bar
  /\ last.err = s_unknown_function \o s_bar
  /\ \E i \in 1..Len(last.n.Args) : last.n.Args[i] = CallExpr(s_foo, << >>)
  /\ s_foo \in DOMAIN functionDefinitions
  /\ functionDefinitions[s_foo].Substitution = s_math_Pow
  /\ s_math \notin imports

(***************************************************************************)
(* C4 as stated.  The call of a function with a substitution targets the   *)
(* bare symbol of the substitution (what follows its last ".") and the     *)
(* namespace (what precedes it) is an import; the call of a function       *)
(* without substitution targets the original name.                         *)
(***************************************************************************)
C4_BareSymbolTarget ==
  CallDone =>
    LET def == functionDefinitions[last.n.Callee]
    IN  IF def.Substitution # s_empty
        THEN /\ last.e.Fun = NewIdent(AfterLast(def.Substitution, "."))
             /\ BeforeLast(def.Substitution, ".") \in imports
        ELSE last.e.Fun = NewIdent(last.n.Callee)

(***************************************************************************)
(* C4 as amended.  The call of a function with a substitution targets what *)
(* follows the last "/" of the substitution, the symbol qualified by its   *)
(* package (fmt.Printf, darwin.Fabs), and what precedes the last "." of    *)
(* the substitution is recorded as an import; the call of a function       *)
(* without substitution targets the original name, and records no import   *)
(* (unless an argument is itself a call).                                  *)
(***************************************************************************)
C4_SubstitutionTarget ==
  [][(last'.op = "Call" /\ last'.err = Nil) =>
       LET def == Registry[last'.n.Callee]
           args == last'.n.Args
       IN  IF def.Substitution # s_empty
           THEN /\ last'.e.Fun = NewIdent(AfterLast(def.Substitution, "/"))
                /\ last'.e.Fun # NewIdent(last'.n.Callee)
                /\ BeforeLast(def.Substitution, ".") \in imports'
                /\ imports \subseteq imports'
           ELSE /\ last'.e.Fun = NewIdent(last'.n.Callee)
                /\ (\A i \in 1..Len(args) : args[i].node # "CallExpr")
                     => imports' = imports]_vars

\* __builtin_fabs was called, after printf: the target is darwin.Fabs and the
\* imports are the path of its package and fmt.
C4_Witness ==
  /\ CallDone
  /\ last.n.Callee = s_fabs
  /\ last.e.Fun = NewIdent(s_darwin_Fabs)
  /\ s_darwin_ns \in imports
  /\ s_fmt \in imports

(***************************************************************************)
(* C5.  A call with n arguments of a function with k declared parameters   *)
(* has n arguments in the order of the call; argument i is a cast to the   *)
(* type of parameter i when i is among the first k, and the translated     *)
(* argument itself otherwise.                                              *)
(***************************************************************************)
C5_ArgumentCasts ==
  CallDone =>
    LET def == functionDefinitions[last.n.Callee]
        k == Len(def.ArgumentTypes)
        args == last.n.Args
    IN  /\ Len(last.e.Args) = Len(args)
        /\ \A i \in 1..Len(args) :
             IF i <= k
             THEN IsCastOf(last.e.Args[i], args[i], def.ArgumentTypes[i])
             ELSE IsFrom(last.e.Args[i], args[i])
        /\ last.eType = def.ReturnType

\* A call with three arguments of a function with two declared parameters.
C5_Witness ==
  /\ CallDone
  /\ last.n.Callee = s_foo
  /\ Len(last.n.Args) = 3
  /\ Len(functionDefinitions[s_foo].ArgumentTypes) = 2
  /\ last.e.Args[2].kind = "CastExpr"
  /\ last.e.Args[3].kind # "CastExpr"

(***************************************************************************)
(* C6.  In the entry point a return of the literal 0 becomes a return      *)
(* without value; a return of anything else becomes a call of os.Exit with *)
(* the cast expression as its one argument, and "os" is an import.  No     *)
(* return with a value is emitted in the entry point.                      *)
(***************************************************************************)
C6_ReturnInMain ==
  \A d \in 1..Len(file) :
    file[d].n.Name = s_main =>
      \A j \in 1..Len(file[d].done) :
        LET src == BodyOf(file[d].n)[j]
            stmt == file[d].done[j]
        IN  /\ stmt.kind = "ReturnStmt" => stmt.Results = << >>
            /\ src.node = "ReturnStmt" =>
                 IF src.Children[1] = IntegerLiteral(s_0)
                 THEN stmt = [kind |-> "ReturnStmt", Results |-> << >>]
                 ELSE /\ stmt.kind = "ExprStmt"
                      /\ stmt.X.kind = "CallExpr"
                      /\ stmt.X.Fun = NewIdent(s_os_Exit)
                      /\ Len(stmt.X.Args) = 1
                      /\ IsCastOf(stmt.X.Args[1], src.Children[1],
                                  functionDefinitions[s_main].ReturnType)
                      /\ s_os \in imports

\* The entry point was translated with a return of 0, and with a return of
\* something that is no literal.
C6_Witness ==
  /\ \E d \in 1..Len(file) :
       /\ file[d].n.Name = s_main
       /\ BodyOf(file[d].n) = <<ReturnStmt(<<IntegerLiteral(s_0)>>)>>
       /\ Len(file[d].done) = 1
  /\ \E d \in 1..Len(file) :
       /\ file[d].n.Name = s_main
       /\ BodyOf(file[d].n) = <<ReturnStmt(<<DeclRefExpr(s_y, s_double)>>)>>
       /\ Len(file[d].done) = 1
       /\ file[d].imported = {s_os}

(***************************************************************************)
(* C7.  While the declarations of a file are translated in their order,    *)
(* the translation context names the declaration at hand, which has an     *)
(* entry; every return translated in the body of a function F other than   *)
(* the entry point is a return of one expression, the operand cast to the  *)
(* return type of the entry of F.  (A declaration that panics ends the     *)
(* translation; it may leave its name without entry.)                      *)
(***************************************************************************)
C7_ReturnInFunction ==
  /\ Len(file) > 0 =>
       /\ FunctionName = file[Len(file)].n.Name
       /\ ~panicked => FunctionName \in DOMAIN functionDefinitions
  /\ \A d \in 1..Len(file) :
       file[d].n.Name # s_main =>
         \A j \in 1..Len(file[d].done) :
           LET src == BodyOf(file[d].n)[j]
               stmt == file[d].done[j]
           IN  src.node = "ReturnStmt" =>
                 /\ stmt.kind = "ReturnStmt"
                 /\ Len(stmt.Results) = 1
                 /\ IsCastOf(stmt.Results[1], src.Children[1],
                      functionDefinitions[file[d].n.Name].ReturnType)

\* A return was translated in a function whose entry, from an earlier
\* declaration, has another return type than the declaration at hand.
C7_Witness ==
  \E d \in 1..Len(file) :
    /\ file[d].n.Name = s_foo
    /\ Len(file[d].done) = 1
    /\ file[d].done[1].kind = "ReturnStmt"
    /\ getFunctionReturnType(file[d].n.Type) =
         [panic |-> FALSE, returnType |-> s_double]
    /\ functionDefinitions[s_foo].ReturnType = s_int

(***************************************************************************)
(* C8.  A name is registered by its first declaration only: its entry is   *)
(* the entry of the table or, for a new name, the prototype of the first   *)
(* declaration of the name in the file (a first declaration whose type has *)
(* no return type panics and registers nothing).  The emitted declarations *)
(* are, in file order, those of the declarations with a body that were     *)
(* translated without error and are neither substituted nor ignored, each  *)
(* with its translated body: a forward declaration followed by the         *)
(* definition emits one declaration.                                       *)
(***************************************************************************)
Prototype(n) ==
  FunctionDefinition(n.Name, getFunctionReturnType(n.Type).returnType,
                     getFunctionArgumentTypes(n), s_empty)

Emits(d) ==
  /\ HasBody(d.n)
  /\ d.err = Nil
  /\ ~d.panic
  /\ d.n.Name \notin Denylist
  /\ functionDefinitions[d.n.Name].Substitution = s_empty

C8_RegisteredOnceEmittedOnce ==
  /\ \A d \in 1..Len(file) :
       LET name == file[d].n.Name
           first == CHOOSE i \in 1..d :
                      /\ file[i].n.Name = name
                      /\ \A j \in 1..(i - 1) : file[j].n.Name # name
       IN  /\ name \in DOMAIN functionDefinitions <=>
                \/ name \in BuiltInNames
                \/ ~getFunctionReturnType(file[first].n.Type).panic
           /\ name \in DOMAIN functionDefinitions =>
                functionDefinitions[name] =
                  IF name \in BuiltInNames THEN BuiltIn(name)
                  ELSE Prototype(file[first].n)
           /\ name \notin DOMAIN functionDefinitions => file[d].panic
  /\ LET emitted == SelectSeq(file, Emits)
     IN  /\ Len(Decls) = Len(emitted)
         /\ \A k \in 1..Len(emitted) :
              /\ Decls[k].Name = NewIdent(emitted[k].n.Name)
              /\ Decls[k].Body = [kind |-> "BlockStmt",
                                  List |-> emitted[k].done]

\* A forward declaration of foo and then its definition, with another return
\* type, were translated: one declaration is emitted.
C8_Witness ==
  /\ Len(file) = 2
  /\ file[1].n.Name = s_foo /\ ~HasBody(file[1].n)
  /\ file[2].n.Name = s_foo /\ HasBody(file[2].n)
  /\ file[1].n.Type # file[2].n.Type
  /\ Len(file[2].done) = 1
  /\ Len(Decls) = 1
  /\ Decls[1].Name = NewIdent(s_foo)

(***************************************************************************)
(* C9.  The translation of a declaration whose entry has a substitution,   *)
(* or whose name is one of the seven ignored names, leaves the emitted     *)
(* declarations as they were, also when it has a body.                     *)
(***************************************************************************)
C9_NothingEmitted ==
  [][Len(file') > Len(file) =>
       LET name == file'[Len(file')].n.Name
       IN  (\/ name \in Denylist
            \/ /\ name \in DOMAIN functionDefinitions'
               /\ functionDefinitions'[name].Substitution # s_empty)
           => Decls' = Decls]_vars

\* An ignored function and a function with a substitution were translated,
\* both with a body, and nothing is emitted.
C9_Witness ==
  /\ Len(file) = 2
  /\ file[1].n.Name = s_wcwidth /\ Len(file[1].done) = 1 /\ file[1].err = Nil
  /\ file[2].n.Name = s_pow /\ Len(BodyOf(file[2].n)) = 1
  /\ Decls = << >>

(***************************************************************************)
(* C10 as stated.  The translation of a declaration with an ignored name   *)
(* stops before its body is translated: it translates no statement,        *)
(* records no import and returns no error.                                 *)
(***************************************************************************)
C10_IgnoredBeforeBody ==
  \A d \in 1..Len(file) :
    file[d].n.Name \in Denylist =>
      /\ file[d].done = << >>
      /\ file[d].imported = {}
      /\ file[d].err = Nil

=============================================================================
